---- MODULE Spec2Model ----
(***************************************************************************)
(* Verification model of the proof-of-work miner: Block (block.rs),        *)
(* TreeNode (simpletree.rs), Blockchain::new_from_genesis_and_vec and the  *)
(* mining loop (miner.rs).                                                 *)
(*                                                                         *)
(* Each component has its own variables and its own specification          *)
(* (SpecPow, SpecSolve, SpecTree, SpecBuild, SpecMine); the variables of   *)
(* the components a specification does not exercise stay at their idle     *)
(* values.                                                                 *)
(***************************************************************************)
EXTENDS Integers, Sequences, FiniteSets, TLC

VARIABLES
    \* Block::pow_check called on its own
    pw_hash, pw_difficulty, pw_result, pw_pc,
    \* Block::solve_block
    sb_block, sb_difficulty, sb_max_iteration, sb_i, sb_nonce0, sb_tried, sb_result, sb_pc,
    \* a TreeNode<Block> and the last query made on it
    t_root, t_call,
    \* Blockchain::new_from_genesis_and_vec: its arguments, its locals, the
    \* number of sweeps begun and its position
    genesis, blocks, tree, remaining_blocks, still_remaining, invalid_blocks, blockids,
    inserted_some, sweeps, b_pc,
    \* mine: its arguments, the two channels and the network worker at their
    \* other ends, the locals of the loop body and its position
    m_difficulty, miner_name, max_iter, rx_net, tx_net, net_alive,
    received, m_genesis, m_block, chain, leaf, new_block, m_i, m_pc,
    \* the lines "Failed to receive from network." written to stderr so far
    recv_errors,
    \* Block::is_genesis called on its own
    ig_block, ig_difficulty, ig_result, ig_pc,
    \* the inbound channel of mine, a snapshot being the serial number the
    \* worker gave it and the number of blocks it lists: the buffer of the
    \* channel, the snapshot the worker is blocked in send with, the number of
    \* blocks the worker knows, the number of snapshots it has produced, the
    \* snapshot the loop has received and the position of the loop
    snap_queue, snap_sending, snap_known, snap_produced, snap_received, snap_pc,
    \* the network worker's side of mine: the snapshots it has handed over
    delivered

pow_vars == <<pw_hash, pw_difficulty, pw_result, pw_pc>>
solve_vars ==
    <<sb_block, sb_difficulty, sb_max_iteration, sb_i, sb_nonce0, sb_tried, sb_result, sb_pc>>
tree_vars == <<t_root, t_call>>
build_vars ==
    <<genesis, blocks, tree, remaining_blocks, still_remaining, invalid_blocks, blockids,
      inserted_some, sweeps, b_pc>>
mine_vars ==
    <<m_difficulty, miner_name, max_iter, rx_net, tx_net, net_alive,
      received, m_genesis, m_block, chain, leaf, new_block, m_i, m_pc, recv_errors>>
genesis_vars == <<ig_block, ig_difficulty, ig_result, ig_pc>>
inbound_vars ==
    <<snap_queue, snap_sending, snap_known, snap_produced, snap_received, snap_pc>>
cycle_vars == <<delivered>>
vars == <<pow_vars, solve_vars, tree_vars, build_vars, mine_vars, genesis_vars, inbound_vars, cycle_vars>>

(***************************************************************************)
(* Bounds of the model.                                                    *)
(***************************************************************************)
\* longest byte sequence handed to pow_check on its own
PowMaxLen == 2
\* largest nonce the random generator yields; nonces are 0..MaxNonce
MaxNonce == 2
\* largest difficulty handed to solve_block
MaxDifficulty == 3
\* largest attempt budget handed to solve_block
MaxIter == 3
\* most nodes of a tree built by hand in SpecTree
MaxNodes == 6
\* longest candidate list handed to new_from_genesis_and_vec
MaxBlocks == 3
\* most blocks of a snapshot the network worker delivers
MaxSnapshot == 3
\* most failed reads of the inbound channel that are followed
MaxRecvErrors == 2
\* most snapshots the network worker hands to a recording run of mine
MaxCycles == 2
\* most snapshots the network worker produces
MaxProduced == 4
\* most blocks the network worker comes to know
MaxKnown == 3

(***************************************************************************)
(* Generic helpers.                                                        *)
(***************************************************************************)
\* Option<T>: None is the empty sequence, Some(x) the sequence of x alone
None == <<>>
Some(x) == <<x>>

RECURSIVE Pow2(_)
Pow2(n) == IF n = 0 THEN 1 ELSE 2 * Pow2(n - 1)

SeqsUpTo(S, n) == UNION {[1..k -> S] : k \in 0..n}

Range(s) == {s[i] : i \in DOMAIN s}

\* no entry of the sequence occurs twice
DistinctBlocks(bs) == \A i, j \in DOMAIN bs : bs[i] = bs[j] => i = j

(***************************************************************************)
(* Block (block.rs).                                                       *)
(***************************************************************************)
\* DanceMove: Y = 1, M = 2, C = 3, A = 4
DanceMove == {1, 2, 3, 4}

Block(parent_hash, miner, nonce, dancemove) ==
    [parent_hash |-> parent_hash, miner |-> miner, nonce |-> nonce, dancemove |-> dancemove]

\* String::as_bytes for the miner names of the model (ASCII)
as_bytes(miner) ==
    CASE miner = "Genesis" -> <<71, 101, 110, 101, 115, 105, 115>>
      [] miner = "miner1"  -> <<109, 105, 110, 101, 114, 49>>
      [] miner = "m1"      -> <<109, 49>>
      [] miner = "m2"      -> <<109, 50>>
      [] miner = "m3"      -> <<109, 51>>
      [] miner = "test"    -> <<116, 101, 115, 116>>

\* u64::to_le_bytes: eight bytes, least significant first
RECURSIVE shr8(_, _)
shr8(n, k) == IF k = 0 THEN n ELSE shr8(n \div 256, k - 1)

to_le_bytes(nonce) == [k \in 1..8 |-> shr8(nonce, k - 1) % 256]

\* The digest: SHA-256 is stood in for by a 16-bit multiplicative digest over
\* the same byte stream (parent_hash, miner, nonce little-endian, dance move),
\* given out as two bytes, most significant first.  HashDistinct below states
\* that it tells the blocks of the model apart.
RECURSIVE Absorb(_, _, _)
Absorb(h, bytes, i) ==
    IF i > Len(bytes) THEN h
    ELSE Absorb((h * 31 + bytes[i] + 1) % 65536, bytes, i + 1)

Finalize(h) ==
    LET x == (h * 25173 + 13849) % 65536
        y == ((x \div 256) + (x % 256) * 7 + h) % 256
    IN  <<y, x % 256>>

hash_block(b) ==
    LET h1 == Absorb(0, b.parent_hash, 1)
        h2 == Absorb(h1, as_bytes(b.miner), 1)
        h3 == Absorb(h2, to_le_bytes(b.nonce), 1)
        h4 == Absorb(h3, <<b.dancemove>>, 1)
    IN  Finalize(h4)

\* u8::leading_zeros
leading_zeros(byte) ==
    IF byte >= 128 THEN 0
    ELSE IF byte >= 64 THEN 1
    ELSE IF byte >= 32 THEN 2
    ELSE IF byte >= 16 THEN 3
    ELSE IF byte >= 8 THEN 4
    ELSE IF byte >= 4 THEN 5
    ELSE IF byte >= 2 THEN 6
    ELSE IF byte >= 1 THEN 7
    ELSE 8

\* the for loop of pow_check from byte i on, leading_bits counted so far
RECURSIVE pow_loop(_, _, _)
pow_loop(hash, i, leading_bits) ==
    IF i > Len(hash) THEN leading_bits
    ELSE IF hash[i] = 0 THEN pow_loop(hash, i + 1, leading_bits + 8)
    ELSE leading_bits + leading_zeros(hash[i])

\* faulty variant: no break at the first non-zero byte
RECURSIVE pow_loop_nobreak(_, _, _)
pow_loop_nobreak(hash, i, leading_bits) ==
    IF i > Len(hash) THEN leading_bits
    ELSE IF hash[i] = 0 THEN pow_loop_nobreak(hash, i + 1, leading_bits + 8)
    ELSE pow_loop_nobreak(hash, i + 1, leading_bits + leading_zeros(hash[i]))

pow_check_nobreak(hash, difficulty) == pow_loop_nobreak(hash, 1, 0) >= difficulty

pow_check(hash, difficulty) == pow_loop(hash, 1, 0) >= difficulty

\* #[derive(Default)] for Block
DefaultBlock == Block(<<>>, "", 0, 1)

\* faulty variant: a genesis block must also meet the difficulty
is_genesis_pow(b, difficulty) ==
    /\ b.parent_hash = <<>>
    /\ b.miner = "Genesis"
    /\ pow_check(hash_block(b), difficulty)

is_genesis(b, difficulty) == b.parent_hash = <<>> /\ b.miner = "Genesis"

\* impl Parenting for Block
is_parent(b, parent_id) == hash_block(b) = parent_id

(***************************************************************************)
(* pow_check on its own: SpecPow.                                          *)
(***************************************************************************)
PowBytes == {0, 1, 2, 15, 64, 127, 128, 255}

PowIdle ==
    /\ pw_hash = <<>>
    /\ pw_difficulty = 0
    /\ pw_result = FALSE
    /\ pw_pc = "idle"

PowInit ==
    /\ pw_hash \in SeqsUpTo(PowBytes, PowMaxLen)
    /\ pw_difficulty \in 0..(8 * PowMaxLen + 1)
    /\ pw_result = FALSE
    /\ pw_pc = "call"

PowCheck ==
    /\ pw_pc = "call"
    /\ pw_result' = pow_check(pw_hash, pw_difficulty)
    /\ pw_pc' = "done"
    /\ UNCHANGED <<pw_hash, pw_difficulty>>
    /\ UNCHANGED <<solve_vars, tree_vars, build_vars, mine_vars, genesis_vars, inbound_vars, cycle_vars>>

(***************************************************************************)
(* is_genesis on its own: SpecGenesis.                                     *)
(***************************************************************************)
\* miner names: the reserved one, the same in lower case, another and none
GenesisMiners == {"Genesis", "genesis", "miner1", ""}

\* parent hashes: none, one zero byte, the hash of a genesis block
GenesisParents == {<<>>, <<0>>, hash_block(Block(<<>>, "Genesis", 0, 1))}

GenesisIdle ==
    /\ ig_block = DefaultBlock
    /\ ig_difficulty = 0
    /\ ig_result = FALSE
    /\ ig_pc = "idle"

GenesisInit ==
    /\ \E parent_hash \in GenesisParents, miner \in GenesisMiners, nonce \in 0..MaxNonce,
          dancemove \in DanceMove :
          ig_block = Block(parent_hash, miner, nonce, dancemove)
    /\ ig_difficulty \in 0..MaxDifficulty
    /\ ig_result = FALSE
    /\ ig_pc = "call"

GenesisCheck ==
    /\ ig_pc = "call"
    /\ ig_result' = is_genesis(ig_block, ig_difficulty)
    /\ ig_pc' = "done"
    /\ UNCHANGED <<ig_block, ig_difficulty>>
    /\ UNCHANGED <<pow_vars, solve_vars, tree_vars, build_vars, mine_vars, inbound_vars, cycle_vars>>

(***************************************************************************)
(* solve_block: SpecSolve.                                                 *)
(***************************************************************************)
Nonces == 0..MaxNonce

\* the iterations a run without max_iteration is followed for
SolveCap == MaxIter + 1

\* i is in 0..max_iteration.unwrap_or(u64::MAX): without max_iteration the
\* range ends at u64::MAX, beyond every count the model follows
in_range(i, max_iteration) ==
    IF max_iteration = None THEN TRUE ELSE i < max_iteration[1]

\* faulty variant: the digest is taken before the new nonce is installed
solve_attempt_stale(b, nonce, difficulty) ==
    LET hash == hash_block(b)
    IN  [block |-> [b EXCEPT !.nonce = nonce], hash |-> hash,
         found |-> pow_check(hash, difficulty)]

\* one iteration of the loop of solve_block, rng.next_u64() having given nonce
solve_attempt(b, nonce, difficulty) ==
    LET nb == [b EXCEPT !.nonce = nonce]
        hash == hash_block(nb)
    IN  [block |-> nb, hash |-> hash, found |-> pow_check(hash, difficulty)]

SolveIdle ==
    /\ sb_block = DefaultBlock
    /\ sb_difficulty = 0
    /\ sb_max_iteration = None
    /\ sb_i = 0
    /\ sb_nonce0 = 0
    /\ sb_tried = <<>>
    /\ sb_result = None
    /\ sb_pc = "idle"

SolveInit ==
    /\ \E miner \in {"Genesis", "miner1"}, nonce \in {0, MaxNonce}, dancemove \in DanceMove :
          /\ sb_block = Block(<<>>, miner, nonce, dancemove)
          /\ sb_nonce0 = nonce
    /\ sb_difficulty \in 0..MaxDifficulty
    /\ sb_max_iteration \in {None} \cup {Some(n) : n \in 0..MaxIter}
    /\ sb_i = 0
    /\ sb_tried = <<>>
    /\ sb_result = None
    /\ sb_pc = "loop"

\* one pass through the body of the for loop
SolveIterate ==
    /\ sb_pc = "loop"
    /\ in_range(sb_i, sb_max_iteration)
    /\ sb_i < SolveCap
    /\ \E nonce \in Nonces :
          LET a == solve_attempt(sb_block, nonce, sb_difficulty)
          IN  /\ sb_block' = a.block
              /\ sb_tried' = Append(sb_tried, nonce)
              /\ sb_i' = sb_i + 1
              /\ IF a.found
                  THEN sb_result' = Some(a.hash) /\ sb_pc' = "done"
                  ELSE UNCHANGED <<sb_result, sb_pc>>
    /\ UNCHANGED <<sb_difficulty, sb_max_iteration, sb_nonce0>>
    /\ UNCHANGED <<pow_vars, tree_vars, build_vars, mine_vars, genesis_vars, inbound_vars, cycle_vars>>

\* the range is used up: solve_block returns None
SolveExhausted ==
    /\ sb_pc = "loop"
    /\ ~in_range(sb_i, sb_max_iteration)
    /\ sb_result' = None
    /\ sb_pc' = "done"
    /\ UNCHANGED <<sb_block, sb_difficulty, sb_max_iteration, sb_i, sb_nonce0, sb_tried>>
    /\ UNCHANGED <<pow_vars, tree_vars, build_vars, mine_vars, genesis_vars, inbound_vars, cycle_vars>>

(***************************************************************************)
(* TreeNode (simpletree.rs).  A node is its value and the sequence of its  *)
(* child nodes; a reference to a node of a tree is the path of child       *)
(* indices that leads to it from the root.                                 *)
(***************************************************************************)
TreeNode_new(value) == [value |-> value, children |-> <<>>]

insert(node, value) == [node EXCEPT !.children = Append(@, TreeNode_new(value))]

\* the node a reference denotes
RECURSIVE NodeAt(_, _)
NodeAt(node, path) ==
    IF path = <<>> THEN node ELSE NodeAt(node.children[path[1]], Tail(path))

\* insert through a mutable reference
RECURSIVE insert_at(_, _, _)
insert_at(node, path, value) ==
    IF path = <<>> THEN insert(node, value)
    ELSE [node EXCEPT !.children[path[1]] = insert_at(@, Tail(path), value)]

\* faulty variant: the search goes on below a matching node and answers with the
\* last match of the traversal
RECURSIVE look_for_parent_last(_, _), look_in_children_last(_, _, _, _)
look_for_parent_last(node, parent_id) ==
    look_in_children_last(node, parent_id, 1,
        IF is_parent(node.value, parent_id) THEN Some(<<>>) ELSE None)

look_in_children_last(node, parent_id, i, best) ==
    IF i > Len(node.children) THEN best
    ELSE LET found == look_for_parent_last(node.children[i], parent_id)
         IN  look_in_children_last(node, parent_id, i + 1,
                 IF found # None THEN Some(<<i>> \o found[1]) ELSE best)

RECURSIVE look_for_parent(_, _), look_in_children(_, _, _)
look_for_parent(node, parent_id) ==
    IF is_parent(node.value, parent_id) THEN Some(<<>>)
    ELSE look_in_children(node, parent_id, 1)

\* the for loop of look_for_parent from child i on
look_in_children(node, parent_id, i) ==
    IF i > Len(node.children) THEN None
    ELSE LET found == look_for_parent(node.children[i], parent_id)
         IN  IF found # None THEN Some(<<i>> \o found[1])
             ELSE look_in_children(node, parent_id, i + 1)

\* faulty variant: a leaf as deep as the deepest so far replaces the ones collected
helper_leaf_replace(path, depth, acc) ==
    IF depth >= acc.max_depth
    THEN [max_depth |-> depth, deepest |-> <<path>>]
    ELSE acc

\* faulty variant: a root without children is not taken for a leaf
helper_leaf_below_root(path, depth, acc) ==
    IF path = <<>> THEN acc
    ELSE IF depth > acc.max_depth
    THEN [max_depth |-> depth, deepest |-> <<path>>]
    ELSE IF depth = acc.max_depth
    THEN [acc EXCEPT !.deepest = Append(@, path)]
    ELSE acc

\* the leaf branch of helper: acc is (max_depth, deepest)
helper_leaf(path, depth, acc) ==
    IF depth > acc.max_depth
    THEN [max_depth |-> depth, deepest |-> <<path>>]
    ELSE IF depth = acc.max_depth
    THEN [acc EXCEPT !.deepest = Append(@, path)]
    ELSE acc

RECURSIVE helper(_, _, _, _), helper_children(_, _, _, _, _)
helper(node, path, depth, acc) ==
    IF node.children = <<>> THEN helper_leaf(path, depth, acc)
    ELSE helper_children(node, path, depth, acc, 1)

\* the for loop of helper from child i on
helper_children(node, path, depth, acc, i) ==
    IF i > Len(node.children) THEN acc
    ELSE helper_children(node, path, depth,
             helper(node.children[i], Append(path, i), depth + 1, acc), i + 1)

deepest_leafs(root) == helper(root, <<>>, 1, [max_depth |-> 0, deepest |-> <<>>]).deepest

\* the references to all nodes of a tree
RECURSIVE Paths(_)
Paths(node) ==
    {<<>>} \cup UNION {{<<i>> \o p : p \in Paths(node.children[i])} : i \in DOMAIN node.children}

Size(node) == Cardinality(Paths(node))

(***************************************************************************)
(* Trees built by hand and queried: SpecTree.                              *)
(***************************************************************************)
TreeGenesis == Block(<<>>, "Genesis", 0, 1)

TreeValues ==
    {TreeGenesis, Block(hash_block(TreeGenesis), "m1", 1, 1)}

TreeIds == {hash_block(v) : v \in TreeValues} \cup {<<255, 255>>}

NoCall == [op |-> "none", id |-> <<>>, result |-> <<>>]

TreeIdle ==
    /\ t_root = TreeNode_new(DefaultBlock)
    /\ t_call = NoCall

TreeInit ==
    /\ t_root \in {TreeNode_new(v) : v \in TreeValues}
    /\ t_call = NoCall

\* node.insert(value) on any node of the tree
TreeInsert ==
    /\ Size(t_root) < MaxNodes
    /\ \E path \in Paths(t_root), value \in TreeValues :
          t_root' = insert_at(t_root, path, value)
    /\ t_call' = NoCall
    /\ UNCHANGED <<pow_vars, solve_vars, build_vars, mine_vars, genesis_vars, inbound_vars, cycle_vars>>

TreeLookForParent ==
    /\ \E id \in TreeIds :
          t_call' = [op |-> "look_for_parent", id |-> id, result |-> look_for_parent(t_root, id)]
    /\ UNCHANGED t_root
    /\ UNCHANGED <<pow_vars, solve_vars, build_vars, mine_vars, genesis_vars, inbound_vars, cycle_vars>>

TreeDeepestLeafs ==
    /\ t_call' = [op |-> "deepest_leafs", id |-> <<>>, result |-> deepest_leafs(t_root)]
    /\ UNCHANGED t_root
    /\ UNCHANGED <<pow_vars, solve_vars, build_vars, mine_vars, genesis_vars, inbound_vars, cycle_vars>>

(***************************************************************************)
(* Blockchain::new_from_genesis_and_vec (miner.rs).                        *)
(***************************************************************************)
\* the locals of the function as one value
BuildState(t, rem, still, invalid, ids, ins) ==
    [tree |-> t, remaining_blocks |-> rem, still_remaining |-> still,
     invalid_blocks |-> invalid, blockids |-> ids, inserted_some |-> ins]

\* faulty variant: an insertion does not report progress, so one sweep is made
process_block_single_pass(st, block) ==
    IF block.nonce \in st.blockids
    THEN [st EXCEPT !.invalid_blocks = Append(@, block)]
    ELSE LET parent == look_for_parent(st.tree, block.parent_hash)
         IN  IF parent # None
             THEN [st EXCEPT !.tree = insert_at(@, parent[1], block),
                             !.blockids = @ \cup {block.nonce}]
             ELSE [st EXCEPT !.still_remaining = Append(@, block)]

\* faulty variant: the nonce of an inserted block is not recorded
process_block_no_record(st, block) ==
    IF block.nonce \in st.blockids
    THEN [st EXCEPT !.invalid_blocks = Append(@, block)]
    ELSE LET parent == look_for_parent(st.tree, block.parent_hash)
         IN  IF parent # None
             THEN [st EXCEPT !.tree = insert_at(@, parent[1], block),
                             !.inserted_some = TRUE]
             ELSE [st EXCEPT !.still_remaining = Append(@, block)]

\* faulty variant: a block whose parent is not found is not kept
process_block_drop(st, block) ==
    IF block.nonce \in st.blockids
    THEN [st EXCEPT !.invalid_blocks = Append(@, block)]
    ELSE LET parent == look_for_parent(st.tree, block.parent_hash)
         IN  IF parent # None
             THEN [st EXCEPT !.tree = insert_at(@, parent[1], block),
                             !.blockids = @ \cup {block.nonce},
                             !.inserted_some = TRUE]
             ELSE st

\* faulty variant: the block is pushed onto the root, not onto the node found
process_block_at_root(st, block) ==
    IF block.nonce \in st.blockids
    THEN [st EXCEPT !.invalid_blocks = Append(@, block)]
    ELSE LET parent == look_for_parent(st.tree, block.parent_hash)
         IN  IF parent # None
             THEN [st EXCEPT !.tree = insert_at(@, <<>>, block),
                             !.blockids = @ \cup {block.nonce},
                             !.inserted_some = TRUE]
             ELSE [st EXCEPT !.still_remaining = Append(@, block)]

\* faulty variant: putting a block off counts as progress
process_block_put_off_progress(st, block) ==
    IF block.nonce \in st.blockids
    THEN [st EXCEPT !.invalid_blocks = Append(@, block)]
    ELSE LET parent == look_for_parent(st.tree, block.parent_hash)
         IN  IF parent # None
             THEN [st EXCEPT !.tree = insert_at(@, parent[1], block),
                             !.blockids = @ \cup {block.nonce},
                             !.inserted_some = TRUE]
             ELSE [st EXCEPT !.still_remaining = Append(@, block),
                             !.inserted_some = TRUE]

\* the body of the for loop, for one block
process_block(st, block) ==
    IF block.nonce \in st.blockids
    THEN [st EXCEPT !.invalid_blocks = Append(@, block)]
    ELSE LET parent == look_for_parent(st.tree, block.parent_hash)
         IN  IF parent # None
             THEN [st EXCEPT !.tree = insert_at(@, parent[1], block),
                             !.blockids = @ \cup {block.nonce},
                             !.inserted_some = TRUE]
             ELSE [st EXCEPT !.still_remaining = Append(@, block)]

\* the state at function entry
build_entry(g, bs) == BuildState(TreeNode_new(g), bs, <<>>, <<>>, {}, TRUE)

\* the head of the while body
sweep_begin(st) == [st EXCEPT !.inserted_some = FALSE, !.still_remaining = <<>>]

\* for block in remaining_blocks, the loop run to its end
RECURSIVE for_loop(_)
for_loop(st) ==
    IF st.remaining_blocks = <<>> THEN st
    ELSE for_loop(process_block([st EXCEPT !.remaining_blocks = Tail(@)],
                                Head(st.remaining_blocks)))

\* the tail of the while body
sweep_end(st) == [st EXCEPT !.remaining_blocks = st.still_remaining]

RECURSIVE while_loop(_)
while_loop(st) ==
    IF st.inserted_some THEN while_loop(sweep_end(for_loop(sweep_begin(st)))) ELSE st

\* faulty variant: the duplicates are not returned
extend_dropped(st) == st

\* remaining_blocks.extend(invalid_blocks)
extend(st) == [st EXCEPT !.remaining_blocks = @ \o st.invalid_blocks]

\* the whole function: the tree and the blocks returned beside it
new_from_genesis_and_vec(g, bs) ==
    LET st == extend(while_loop(build_entry(g, bs)))
    IN  [blocks |-> st.tree, remaining |-> st.remaining_blocks]

\* the tree as the first sweep leaves it
first_sweep(g, bs) == for_loop(sweep_begin(build_entry(g, bs))).tree

(***************************************************************************)
(* new_from_genesis_and_vec step by step: SpecBuild.                       *)
(***************************************************************************)
\* create_test_block of the tests: dance move Y
create_test_block(parent_hash, nonce_init, miner) == Block(parent_hash, miner, nonce_init, 1)

GenesisBlocks == {create_test_block(<<>>, n, "Genesis") : n \in {0, 1}}

BuildNonces == {1, 2}

FakeHash == <<255, 255>>

\* candidates: the children and grandchildren of the genesis block g, blocks
\* with a parent hash that is no block's, and g itself
Level1(g) == {create_test_block(hash_block(g), n, "m1") : n \in BuildNonces}
Level2(g) ==
    {create_test_block(hash_block(p), n, "m2") : p \in Level1(g), n \in BuildNonces}
Orphans == {create_test_block(FakeHash, n, "m3") : n \in BuildNonces}
Candidates(g) == Level1(g) \cup Level2(g) \cup Orphans \cup {g}

CurrentState ==
    BuildState(tree, remaining_blocks, still_remaining, invalid_blocks, blockids, inserted_some)

SetState(st) ==
    /\ tree' = st.tree
    /\ remaining_blocks' = st.remaining_blocks
    /\ still_remaining' = st.still_remaining
    /\ invalid_blocks' = st.invalid_blocks
    /\ blockids' = st.blockids
    /\ inserted_some' = st.inserted_some

BuildIdle ==
    /\ genesis = DefaultBlock
    /\ blocks = <<>>
    /\ tree = TreeNode_new(DefaultBlock)
    /\ remaining_blocks = <<>>
    /\ still_remaining = <<>>
    /\ invalid_blocks = <<>>
    /\ blockids = {}
    /\ inserted_some = FALSE
    /\ sweeps = 0
    /\ b_pc = "idle"

BuildInit ==
    /\ genesis \in GenesisBlocks
    /\ blocks \in SeqsUpTo(Candidates(genesis), MaxBlocks)
    /\ tree = build_entry(genesis, blocks).tree
    /\ remaining_blocks = blocks
    /\ still_remaining = <<>>
    /\ invalid_blocks = <<>>
    /\ blockids = {}
    /\ inserted_some = TRUE
    /\ sweeps = 0
    /\ b_pc = "while"

\* while inserted_some: a sweep begins
BuildSweepBegin ==
    /\ b_pc = "while"
    /\ inserted_some
    /\ SetState(sweep_begin(CurrentState))
    /\ sweeps' = sweeps + 1
    /\ b_pc' = "for"
    /\ UNCHANGED <<genesis, blocks>>
    /\ UNCHANGED <<pow_vars, solve_vars, tree_vars, mine_vars, genesis_vars, inbound_vars, cycle_vars>>

\* the for loop takes the next block
BuildForBlock ==
    /\ b_pc = "for"
    /\ remaining_blocks # <<>>
    /\ SetState(process_block([CurrentState EXCEPT !.remaining_blocks = Tail(@)],
                              Head(remaining_blocks)))
    /\ UNCHANGED <<genesis, blocks, sweeps, b_pc>>
    /\ UNCHANGED <<pow_vars, solve_vars, tree_vars, mine_vars, genesis_vars, inbound_vars, cycle_vars>>

\* the for loop is over: remaining_blocks = still_remaining
BuildSweepEnd ==
    /\ b_pc = "for"
    /\ remaining_blocks = <<>>
    /\ SetState(sweep_end(CurrentState))
    /\ b_pc' = "while"
    /\ UNCHANGED <<genesis, blocks, sweeps>>
    /\ UNCHANGED <<pow_vars, solve_vars, tree_vars, mine_vars, genesis_vars, inbound_vars, cycle_vars>>

\* the while loop is over: the function returns (tree, remaining_blocks)
BuildReturn ==
    /\ b_pc = "while"
    /\ ~inserted_some
    /\ SetState(extend(CurrentState))
    /\ b_pc' = "done"
    /\ UNCHANGED <<genesis, blocks, sweeps>>
    /\ UNCHANGED <<pow_vars, solve_vars, tree_vars, mine_vars, genesis_vars, inbound_vars, cycle_vars>>

(***************************************************************************)
(* mine (miner.rs): the mining loop, with the network worker at the other  *)
(* end of its two channels.                                                *)
(***************************************************************************)
MY_NAME == "miner1"

\* random_dancemove yields any of the four moves
random_dancemove == DanceMove

\* received.iter().find(|b| b.is_genesis(difficulty)).cloned()
RECURSIVE find_genesis(_, _, _)
find_genesis(bs, d, i) ==
    IF i > Len(bs) THEN None
    ELSE IF is_genesis(bs[i], d) THEN Some(bs[i])
    ELSE find_genesis(bs, d, i + 1)

\* faulty variant: the first of the deepest leaves is taken
min_by_key_first(root, refs, i, best) == Some(refs[1])

\* Iterator::min_by_key on the nonce, from element i on: an element replaces
\* the best so far only when its key is smaller
RECURSIVE min_by_key(_, _, _, _)
min_by_key(root, refs, i, best) ==
    IF i > Len(refs) THEN best
    ELSE IF best = None THEN min_by_key(root, refs, i + 1, Some(refs[i]))
    ELSE IF NodeAt(root, refs[i]).value.nonce < NodeAt(root, best[1]).value.nonce
    THEN min_by_key(root, refs, i + 1, Some(refs[i]))
    ELSE min_by_key(root, refs, i + 1, best)

\* chain.blocks.deepest_leafs().into_iter().min_by_key(|b| b.value().nonce)
select_tip(root) == min_by_key(root, deepest_leafs(root), 1, None)

\* the blocks the network knows of: a genesis block, two children of it and a
\* grandchild
MineGenesis == Block(<<>>, "Genesis", 0, 1)
MineA == Block(hash_block(MineGenesis), "m1", 2, 1)
MineB == Block(hash_block(MineGenesis), "m2", 1, 1)
MineA1 == Block(hash_block(MineA), "m1", 3, 1)
MineBlocks == {MineGenesis, MineA, MineB, MineA1}

\* a snapshot lists known blocks, each once, in some order
Snapshots == {s \in SeqsUpTo(MineBlocks, MaxSnapshot) : DistinctBlocks(s)}

MineIdle ==
    /\ m_difficulty = 0
    /\ miner_name = ""
    /\ max_iter = None
    /\ rx_net = <<>>
    /\ tx_net = <<>>
    /\ net_alive = FALSE
    /\ received = <<>>
    /\ m_genesis = DefaultBlock
    /\ m_block = DefaultBlock
    /\ chain = TreeNode_new(DefaultBlock)
    /\ leaf = DefaultBlock
    /\ new_block = DefaultBlock
    /\ m_i = 0
    /\ m_pc = "idle"
    /\ recv_errors = 0

\* the locals of the loop body before they are assigned
NoLocals ==
    /\ received' = <<>>
    /\ m_genesis' = DefaultBlock
    /\ m_block' = DefaultBlock
    /\ chain' = TreeNode_new(DefaultBlock)
    /\ leaf' = DefaultBlock
    /\ new_block' = DefaultBlock
    /\ m_i' = 0

MineInit ==
    /\ m_difficulty = 1
    /\ miner_name = MY_NAME
    /\ max_iter \in {None, Some(1)}
    /\ rx_net = <<>>
    /\ tx_net = <<>>
    /\ net_alive = TRUE
    /\ received = <<>>
    /\ m_genesis = DefaultBlock
    /\ m_block = DefaultBlock
    /\ chain = TreeNode_new(DefaultBlock)
    /\ leaf = DefaultBlock
    /\ new_block = DefaultBlock
    /\ m_i = 0
    /\ m_pc = "recv"
    /\ recv_errors = 0

mine_config == <<m_difficulty, miner_name, max_iter>>
mine_others == <<pow_vars, solve_vars, tree_vars, build_vars, genesis_vars, inbound_vars, cycle_vars>>

\* the network worker hands a snapshot to the inbound channel (capacity 1)
NetSend ==
    /\ net_alive
    /\ Len(rx_net) < 1
    /\ \E s \in Snapshots : rx_net' = Append(rx_net, s)
    /\ UNCHANGED <<mine_config, recv_errors, tx_net, net_alive, received, m_genesis, m_block, chain, leaf,
                   new_block, m_i, m_pc>>
    /\ UNCHANGED mine_others

\* the network worker takes a block from the outbound channel
NetTake ==
    /\ net_alive
    /\ tx_net # <<>>
    /\ tx_net' = Tail(tx_net)
    /\ UNCHANGED <<mine_config, recv_errors, rx_net, net_alive, received, m_genesis, m_block, chain, leaf,
                   new_block, m_i, m_pc>>
    /\ UNCHANGED mine_others

\* the network worker ends ("Network failure"): its ends of both channels are
\* dropped; a snapshot already in the inbound channel stays receivable
NetDie ==
    /\ net_alive
    /\ net_alive' = FALSE
    /\ tx_net' = <<>>
    /\ UNCHANGED <<mine_config, recv_errors, rx_net, received, m_genesis, m_block, chain, leaf, new_block,
                   m_i, m_pc>>
    /\ UNCHANGED mine_others

\* rx_net.recv() returns Ok(blocks); the worker has taken the blocks sent in
\* the cycle before
MineRecv ==
    /\ m_pc = "recv"
    /\ rx_net # <<>>
    /\ net_alive => tx_net = <<>>
    /\ received' = Head(rx_net)
    /\ rx_net' = Tail(rx_net)
    /\ m_pc' = "elect"
    /\ UNCHANGED <<mine_config, recv_errors, tx_net, net_alive, m_genesis, m_block, chain, leaf, new_block, m_i>>
    /\ UNCHANGED mine_others

\* rx_net.recv() returns Err, the sender being gone and the channel empty:
\* eprintln and continue, which starts the loop body over
MineRecvErr ==
    /\ m_pc = "recv"
    /\ rx_net = <<>>
    /\ ~net_alive
    /\ recv_errors < MaxRecvErrors
    /\ recv_errors' = recv_errors + 1
    /\ m_pc' = "recv"
    /\ UNCHANGED <<mine_config, rx_net, tx_net, net_alive, received, m_genesis, m_block, chain,
                   leaf, new_block, m_i>>
    /\ UNCHANGED mine_others

\* a genesis m_block is found among the received blocks
MineElectFound ==
    /\ m_pc = "elect"
    /\ find_genesis(received, m_difficulty, 1) # None
    /\ m_genesis' = find_genesis(received, m_difficulty, 1)[1]
    /\ m_pc' = "build"
    /\ UNCHANGED <<mine_config, recv_errors, rx_net, tx_net, net_alive, received, m_block, chain, leaf,
                   new_block, m_i>>
    /\ UNCHANGED mine_others

\* none is found: Block::new(vec![], "Genesis", 0, random_dancemove(..))
MineElectCreate ==
    /\ m_pc = "elect"
    /\ find_genesis(received, m_difficulty, 1) = None
    /\ \E dancemove \in random_dancemove : m_block' = Block(<<>>, "Genesis", 0, dancemove)
    /\ m_i' = 0
    /\ m_pc' = "solve_genesis"
    /\ UNCHANGED <<mine_config, recv_errors, rx_net, tx_net, net_alive, received, m_genesis, chain, leaf,
                   new_block>>
    /\ UNCHANGED mine_others

\* the count of the loop of solve_block is followed only under max_iteration
next_i(i) == IF max_iter = None THEN i ELSE i + 1

\* block.solve_block(..): one pass through its loop
MineSolveGenesisAttempt ==
    /\ m_pc = "solve_genesis"
    /\ in_range(m_i, max_iter)
    /\ \E nonce \in Nonces :
          LET a == solve_attempt(m_block, nonce, m_difficulty)
          IN  /\ m_block' = a.block
              /\ m_i' = next_i(m_i)
              /\ m_pc' = IF a.found THEN "send_genesis" ELSE "solve_genesis"
    /\ UNCHANGED <<mine_config, recv_errors, rx_net, tx_net, net_alive, received, m_genesis, chain, leaf,
                   new_block>>
    /\ UNCHANGED mine_others

\* block.solve_block(..) returns None; the result is not looked at
MineSolveGenesisExhausted ==
    /\ m_pc = "solve_genesis"
    /\ ~in_range(m_i, max_iter)
    /\ m_pc' = "send_genesis"
    /\ UNCHANGED <<mine_config, recv_errors, rx_net, tx_net, net_alive, received, m_genesis, m_block, chain,
                   leaf, new_block, m_i>>
    /\ UNCHANGED mine_others

\* faulty variant: the synthesized genesis block is used but not sent
MineSendGenesisSilent ==
    /\ m_pc = "send_genesis"
    /\ net_alive
    /\ m_genesis' = m_block
    /\ m_block' = DefaultBlock
    /\ m_i' = 0
    /\ m_pc' = "build"
    /\ UNCHANGED <<mine_config, recv_errors, rx_net, tx_net, net_alive, received, chain, leaf,
                   new_block>>
    /\ UNCHANGED mine_others

\* tx_net.send(block.clone()).expect(..): the closure returns the block, which
\* becomes the genesis
MineSendGenesis ==
    /\ m_pc = "send_genesis"
    /\ net_alive
    /\ tx_net' = Append(tx_net, m_block)
    /\ m_genesis' = m_block
    /\ m_block' = DefaultBlock
    /\ m_i' = 0
    /\ m_pc' = "build"
    /\ UNCHANGED <<mine_config, recv_errors, rx_net, net_alive, received, chain, leaf, new_block>>
    /\ UNCHANGED mine_others

\* tx_net.send(..) fails, the receiver being gone: expect panics
MineSendGenesisPanic ==
    /\ m_pc = "send_genesis"
    /\ ~net_alive
    /\ m_pc' = "panicked"
    /\ UNCHANGED <<mine_config, recv_errors, rx_net, tx_net, net_alive, received, m_genesis, m_block, chain,
                   leaf, new_block, m_i>>
    /\ UNCHANGED mine_others

\* Blockchain::new_from_genesis_and_vec(genesis.clone(), received)
MineBuild ==
    /\ m_pc = "build"
    /\ chain' = new_from_genesis_and_vec(m_genesis, received).blocks
    /\ received' = <<>>
    /\ m_pc' = "select"
    /\ UNCHANGED <<mine_config, recv_errors, rx_net, tx_net, net_alive, m_genesis, m_block, leaf, new_block, m_i>>
    /\ UNCHANGED mine_others

\* the deepest leaf with the smallest nonce; unwrap panics on None
MineSelect ==
    /\ m_pc = "select"
    /\ IF select_tip(chain) = None
       THEN m_pc' = "panicked" /\ UNCHANGED leaf
       ELSE /\ leaf' = NodeAt(chain, select_tip(chain)[1]).value
            /\ m_pc' = "new_block"
    /\ UNCHANGED <<mine_config, recv_errors, rx_net, tx_net, net_alive, received, m_genesis, m_block, chain,
                   new_block, m_i>>
    /\ UNCHANGED mine_others

\* faulty variant: the new block names the root of the tree as its parent
MineNewBlockOnRoot ==
    /\ m_pc = "new_block"
    /\ \E dancemove \in random_dancemove :
          new_block' = Block(hash_block(chain.value), miner_name, 0, dancemove)
    /\ m_i' = 0
    /\ m_pc' = "solve"
    /\ UNCHANGED <<mine_config, recv_errors, rx_net, tx_net, net_alive, received, m_genesis, m_block,
                   chain, leaf>>
    /\ UNCHANGED mine_others

\* Block::new(leaf.hash_block().to_vec(), miner_name, 0, random_dancemove(..))
MineNewBlock ==
    /\ m_pc = "new_block"
    /\ \E dancemove \in random_dancemove :
          new_block' = Block(hash_block(leaf), miner_name, 0, dancemove)
    /\ m_i' = 0
    /\ m_pc' = "solve"
    /\ UNCHANGED <<mine_config, recv_errors, rx_net, tx_net, net_alive, received, m_genesis, m_block, chain, leaf>>
    /\ UNCHANGED mine_others

\* new_block.solve_block(..): one pass through its loop
MineSolveAttempt ==
    /\ m_pc = "solve"
    /\ in_range(m_i, max_iter)
    /\ \E nonce \in Nonces :
          LET a == solve_attempt(new_block, nonce, m_difficulty)
          IN  /\ new_block' = a.block
              /\ m_i' = next_i(m_i)
              /\ m_pc' = IF a.found THEN "send" ELSE "solve"
    /\ UNCHANGED <<mine_config, recv_errors, rx_net, tx_net, net_alive, received, m_genesis, m_block, chain, leaf>>
    /\ UNCHANGED mine_others

\* new_block.solve_block(..) returns None; the result is not looked at
MineSolveExhausted ==
    /\ m_pc = "solve"
    /\ ~in_range(m_i, max_iter)
    /\ m_pc' = "send"
    /\ UNCHANGED <<mine_config, recv_errors, rx_net, tx_net, net_alive, received, m_genesis, m_block, chain,
                   leaf, new_block, m_i>>
    /\ UNCHANGED mine_others

\* tx_net.send(new_block).expect(..)
MineSend ==
    /\ m_pc = "send"
    /\ net_alive
    /\ tx_net' = Append(tx_net, new_block)
    /\ m_pc' = "print"
    /\ UNCHANGED <<mine_config, recv_errors, rx_net, net_alive, received, m_genesis, m_block, chain, leaf,
                   new_block, m_i>>
    /\ UNCHANGED mine_others

\* faulty variant: a failed send is passed over and the loop goes on
MineSendIgnored ==
    /\ m_pc = "send"
    /\ ~net_alive
    /\ m_pc' = "print"
    /\ UNCHANGED <<mine_config, recv_errors, rx_net, tx_net, net_alive, received, m_genesis, m_block,
                   chain, leaf, new_block, m_i>>
    /\ UNCHANGED mine_others

\* tx_net.send(..) fails, the receiver being gone: expect panics
MineSendPanic ==
    /\ m_pc = "send"
    /\ ~net_alive
    /\ m_pc' = "panicked"
    /\ UNCHANGED <<mine_config, recv_errors, rx_net, tx_net, net_alive, received, m_genesis, m_block, chain,
                   leaf, new_block, m_i>>
    /\ UNCHANGED mine_others

\* println of the chain; the locals of the body go out of scope and the loop
\* starts over
MinePrint ==
    /\ m_pc = "print"
    /\ NoLocals
    /\ m_pc' = "recv"
    /\ UNCHANGED <<mine_config, recv_errors, rx_net, tx_net, net_alive>>
    /\ UNCHANGED mine_others

(***************************************************************************)
(* The inbound channel of mine, mpsc::sync_channel(1), between the network *)
(* worker and the loop: SpecInbound.  The worker produces snapshot after   *)
(* snapshot, each fresher than the one before, and hands each to send,     *)
(* which blocks while the buffer is full; the loop receives and is then    *)
(* busy with the rest of its body.                                         *)
(***************************************************************************)
\* the bound of mpsc::sync_channel(1)
InboundCapacity == 1

InboundIdle ==
    /\ snap_queue = <<>>
    /\ snap_sending = None
    /\ snap_known = 0
    /\ snap_produced = 0
    /\ snap_received = None
    /\ snap_pc = "idle"

\* the channel is made and the worker spawned
InboundInit ==
    /\ snap_queue = <<>>
    /\ snap_sending = None
    /\ snap_known = 0
    /\ snap_produced = 0
    /\ snap_received = None
    /\ snap_pc = "recv"

inbound_others == <<pow_vars, solve_vars, tree_vars, build_vars, mine_vars, genesis_vars, cycle_vars>>

\* the worker learns of one more block
WorkerLearn ==
    /\ snap_known < MaxKnown
    /\ snap_known' = snap_known + 1
    /\ UNCHANGED <<snap_queue, snap_sending, snap_produced, snap_received, snap_pc>>
    /\ UNCHANGED inbound_others

\* the worker produces the snapshot of the blocks it knows and calls send:
\* the snapshot goes into the buffer if there is room, else the worker blocks
\* holding it
WorkerSend ==
    /\ snap_sending = None
    /\ snap_produced < MaxProduced
    /\ snap_produced' = snap_produced + 1
    /\ LET snapshot == [serial |-> snap_produced + 1, blocks |-> snap_known]
       IN  IF Len(snap_queue) < InboundCapacity
           THEN snap_queue' = Append(snap_queue, snapshot) /\ UNCHANGED snap_sending
           ELSE snap_sending' = Some(snapshot) /\ UNCHANGED snap_queue
    /\ UNCHANGED <<snap_known, snap_received, snap_pc>>
    /\ UNCHANGED inbound_others

\* room has been made in the buffer: the blocked send completes
WorkerSendCompletes ==
    /\ snap_sending # None
    /\ Len(snap_queue) < InboundCapacity
    /\ snap_queue' = Append(snap_queue, snap_sending[1])
    /\ snap_sending' = None
    /\ UNCHANGED <<snap_known, snap_produced, snap_received, snap_pc>>
    /\ UNCHANGED inbound_others

\* rx_net.recv() returns Ok(blocks): the oldest snapshot of the buffer
InboundRecv ==
    /\ snap_pc = "recv"
    /\ snap_queue # <<>>
    /\ snap_received' = Some(Head(snap_queue))
    /\ snap_queue' = Tail(snap_queue)
    /\ snap_pc' = "busy"
    /\ UNCHANGED <<snap_sending, snap_known, snap_produced>>
    /\ UNCHANGED inbound_others

\* the rest of the loop body: election, build, selection, mining, send, print;
\* received goes out of scope
InboundBody ==
    /\ snap_pc = "busy"
    /\ snap_received' = None
    /\ snap_pc' = "recv"
    /\ UNCHANGED <<snap_queue, snap_sending, snap_known, snap_produced>>
    /\ UNCHANGED inbound_others

(***************************************************************************)
(* Specifications.                                                         *)
(***************************************************************************)
(***************************************************************************)
(* mine with the network worker's record kept: SpecCycle.  The worker      *)
(* knows of two genesis blocks and of two children of the first that share *)
(* a nonce; it lists the snapshots it hands over, and stays up.            *)
(***************************************************************************)
\* a second genesis block, and a second child of MineGenesis with MineA's nonce
CycleGenesis == Block(<<>>, "Genesis", 1, 1)
CycleRival == Block(hash_block(MineGenesis), "m3", 2, 1)
CycleBlocks == {MineGenesis, CycleGenesis, MineA, CycleRival}

CycleSnapshots == {s \in SeqsUpTo(CycleBlocks, MaxSnapshot) : DistinctBlocks(s)}

CycleIdle == delivered = <<>>

CycleInit ==
    /\ MineInit
    /\ delivered = <<>>

cycle_others == <<pow_vars, solve_vars, tree_vars, build_vars, genesis_vars, inbound_vars>>

\* the network worker hands a snapshot to the inbound channel (capacity 1)
CycleDeliver ==
    /\ net_alive
    /\ Len(rx_net) < 1
    /\ Len(delivered) < MaxCycles
    /\ \E s \in CycleSnapshots :
          /\ rx_net' = Append(rx_net, s)
          /\ delivered' = Append(delivered, s)
    /\ UNCHANGED <<mine_config, recv_errors, tx_net, net_alive, received, m_genesis, m_block,
                   chain, leaf, new_block, m_i, m_pc>>
    /\ UNCHANGED cycle_others

InitPow ==
    PowInit /\ SolveIdle /\ TreeIdle /\ BuildIdle /\ MineIdle /\ GenesisIdle
    /\ InboundIdle /\ CycleIdle
NextPow == PowCheck
SpecPow == InitPow /\ [][NextPow]_vars

InitGenesis ==
    GenesisInit /\ PowIdle /\ SolveIdle /\ TreeIdle /\ BuildIdle /\ MineIdle
    /\ InboundIdle /\ CycleIdle
NextGenesis == GenesisCheck
SpecGenesis == InitGenesis /\ [][NextGenesis]_vars

InitInbound ==
    InboundInit /\ PowIdle /\ SolveIdle /\ TreeIdle /\ BuildIdle /\ MineIdle
    /\ GenesisIdle /\ CycleIdle
NextInbound == WorkerLearn \/ WorkerSend \/ WorkerSendCompletes \/ InboundRecv \/ InboundBody
SpecInbound == InitInbound /\ [][NextInbound]_vars

InitSolve ==
    SolveInit /\ PowIdle /\ TreeIdle /\ BuildIdle /\ MineIdle /\ GenesisIdle
    /\ InboundIdle /\ CycleIdle
NextSolve == SolveIterate \/ SolveExhausted
SpecSolve == InitSolve /\ [][NextSolve]_vars

InitTree ==
    TreeInit /\ PowIdle /\ SolveIdle /\ BuildIdle /\ MineIdle /\ GenesisIdle
    /\ InboundIdle /\ CycleIdle
NextTree == TreeInsert \/ TreeLookForParent \/ TreeDeepestLeafs
SpecTree == InitTree /\ [][NextTree]_vars

InitBuild ==
    BuildInit /\ PowIdle /\ SolveIdle /\ TreeIdle /\ MineIdle /\ GenesisIdle
    /\ InboundIdle /\ CycleIdle
NextBuild == BuildSweepBegin \/ BuildForBlock \/ BuildSweepEnd \/ BuildReturn
SpecBuild == InitBuild /\ [][NextBuild]_vars

InitMine ==
    MineInit /\ PowIdle /\ SolveIdle /\ TreeIdle /\ BuildIdle /\ GenesisIdle
    /\ InboundIdle /\ CycleIdle
InitCycle ==
    CycleInit /\ PowIdle /\ SolveIdle /\ TreeIdle /\ BuildIdle /\ GenesisIdle
    /\ InboundIdle
NextCycle ==
    \/ CycleDeliver \/ NetTake
    \/ MineRecv
    \/ MineElectFound \/ MineElectCreate
    \/ MineSolveGenesisAttempt \/ MineSolveGenesisExhausted
    \/ MineSendGenesis
    \/ MineBuild \/ MineSelect \/ MineNewBlock
    \/ MineSolveAttempt \/ MineSolveExhausted
    \/ MineSend \/ MinePrint
SpecCycle == InitCycle /\ [][NextCycle]_vars

NextMine ==
    \/ NetSend \/ NetTake \/ NetDie
    \/ MineRecv \/ MineRecvErr
    \/ MineElectFound \/ MineElectCreate
    \/ MineSolveGenesisAttempt \/ MineSolveGenesisExhausted
    \/ MineSendGenesis \/ MineSendGenesisPanic
    \/ MineBuild \/ MineSelect \/ MineNewBlock
    \/ MineSolveAttempt \/ MineSolveExhausted
    \/ MineSend \/ MineSendPanic \/ MinePrint
SpecMine == InitMine /\ [][NextMine]_vars

(***************************************************************************)
(* Properties of pow_check and solve_block.                                *)
(***************************************************************************)
\* bit j (1 = most significant bit of the first byte) of h read big-endian
Bit(h, j) == (h[((j - 1) \div 8) + 1] \div Pow2(7 - ((j - 1) % 8))) % 2

\* length of the leading run of zero bits of h
LeadingZeroRun(h) ==
    CHOOSE k \in 0..(8 * Len(h)) :
        /\ \A j \in 1..k : Bit(h, j) = 0
        /\ k < 8 * Len(h) => Bit(h, k + 1) = 1

\* C10: pow_check(h, d) is true iff the leading run of zero bits of h, read
\* as a big-endian bit string, has length at least d; pow_check(h, 0) is true
\* for every h, the empty and the all-zero sequence included.
C10_PowCheckLeadingZeroBits ==
    pw_pc = "done" =>
        /\ pw_result = (LeadingZeroRun(pw_hash) >= pw_difficulty)
        /\ pw_difficulty = 0 => pw_result = TRUE

\* a zero byte followed by a byte with leading zero bits, accepted at a
\* difficulty of more than one byte
C10_Witness ==
    /\ pw_pc = "done"
    /\ Len(pw_hash) = 2 /\ pw_hash[1] = 0 /\ pw_hash[2] = 15
    /\ pw_difficulty = 12
    /\ pw_result = TRUE

\* C11: is_genesis is true iff the parent_hash is empty and the miner is
\* exactly "Genesis"; the difficulty argument, the nonce and whether the hash
\* meets a difficulty have no part in it.
C11_IsGenesisStructural ==
    ig_pc = "done" =>
        /\ ig_result = TRUE <=> (Len(ig_block.parent_hash) = 0 /\ ig_block.miner = "Genesis")
        /\ \A d \in 0..MaxDifficulty, n \in 0..MaxNonce :
              is_genesis([ig_block EXCEPT !.nonce = n], d) = ig_result

\* a block recognised as genesis although its hash does not meet the
\* difficulty it was asked about
C11_Witness ==
    /\ ig_pc = "done"
    /\ ig_result = TRUE
    /\ ig_difficulty > 0
    /\ ig_block.nonce > 0
    /\ ~pow_check(hash_block(ig_block), ig_difficulty)

\* the name in lower case is not the reserved one
C11_WitnessCase ==
    /\ ig_pc = "done"
    /\ ig_result = FALSE
    /\ ig_block.parent_hash = <<>>
    /\ ig_block.miner = "genesis"

\* the digest of the block with the k-th nonce tried
TriedHash(k) == hash_block([sb_block EXCEPT !.nonce = sb_tried[k]])

\* C9: a returned digest is the hash of the block as left and meets the
\* difficulty; a return of None comes after exactly max_attempts nonces, none
\* of which met the difficulty, with the last nonce tried left on the block
\* (the original nonce when max_attempts is 0).
C9_SolveBlockOutcome ==
    sb_pc = "done" =>
        /\ sb_result # None =>
              /\ sb_result = Some(hash_block(sb_block))
              /\ pow_check(sb_result[1], sb_difficulty)
        /\ sb_result = None =>
              /\ sb_max_iteration # None
              /\ Len(sb_tried) = sb_max_iteration[1]
              /\ \A k \in 1..Len(sb_tried) : ~pow_check(TriedHash(k), sb_difficulty)
              /\ sb_block.nonce =
                    IF Len(sb_tried) = 0 THEN sb_nonce0 ELSE sb_tried[Len(sb_tried)]

\* a digest returned after failed attempts with other nonces
C9_Witness ==
    /\ sb_pc = "done"
    /\ sb_result # None
    /\ Len(sb_tried) >= 2
    /\ sb_tried[1] # sb_tried[Len(sb_tried)]
    /\ sb_difficulty >= 2

\* exhaustion of a non-empty budget
C9_WitnessExhausted ==
    /\ sb_pc = "done"
    /\ sb_result = None
    /\ Len(sb_tried) = MaxIter
    /\ sb_block.nonce # sb_nonce0

(***************************************************************************)
(* Properties of TreeNode.                                                 *)
(***************************************************************************)
\* p is met before q by a depth-first traversal that visits a node before its
\* children and the children in insertion order
RECURSIVE Before(_, _)
Before(p, q) ==
    IF p = <<>> THEN q # <<>>
    ELSE IF q = <<>> THEN FALSE
    ELSE IF p[1] # q[1] THEN p[1] < q[1]
    ELSE Before(Tail(p), Tail(q))

IsLeaf(root, p) == NodeAt(root, p).children = <<>>

\* root counted as depth 1
Depth(p) == Len(p) + 1

Leaves(root) == {p \in Paths(root) : IsLeaf(root, p)}

MaxLeafDepth(root) ==
    CHOOSE d \in {Depth(p) : p \in Leaves(root)} : \A p \in Leaves(root) : Depth(p) <= d

DeepestLeaves(root) == {p \in Leaves(root) : Depth(p) = MaxLeafDepth(root)}

\* C7: deepest_leafs returns exactly the childless nodes at the maximum leaf
\* depth (root at depth 1), each once, in the order a depth-first traversal in
\* child-insertion order meets them.
C7_DeepestLeafsExact ==
    t_call.op = "deepest_leafs" =>
        LET r == t_call.result
        IN  /\ Range(r) = DeepestLeaves(t_root)
            /\ \A i, j \in DOMAIN r : i < j => Before(r[i], r[j])

\* two leaves at depth 3 under different children of the root, and a
\* shallower leaf between them in the traversal
C7_Witness ==
    /\ t_call.op = "deepest_leafs"
    /\ Len(t_call.result) = 2
    /\ Len(t_root.children) = 3
    /\ t_call.result = << <<1, 1>>, <<3, 1>> >>

Matches(root, id) == {p \in Paths(root) : is_parent(NodeAt(root, p).value, id)}

\* C8: look_for_parent returns the first node in pre-order (children in
\* insertion order) whose value answers is_parent(id), also when several
\* nodes do; it returns nothing iff no node does.
C8_LookForParentFirstPreorder ==
    t_call.op = "look_for_parent" =>
        LET m == Matches(t_root, t_call.id)
        IN  /\ t_call.result = None <=> m = {}
            /\ t_call.result # None =>
                  /\ t_call.result[1] \in m
                  /\ \A q \in m \ {t_call.result[1]} : Before(t_call.result[1], q)

\* three nodes satisfy the predicate; the one returned is neither the root nor
\* the shallowest, but the first of the traversal
C8_Witness ==
    /\ t_call.op = "look_for_parent"
    /\ Cardinality(Matches(t_root, t_call.id)) = 3
    /\ t_call.result = Some(<<1, 1>>)
    /\ <<2>> \in Matches(t_root, t_call.id)

(***************************************************************************)
(* Properties of new_from_genesis_and_vec.                                 *)
(***************************************************************************)
\* the digest tells the blocks of the model apart, as SHA-256 does
HashDistinct ==
    \A g \in GenesisBlocks :
        /\ \A a, b \in Candidates(g) : hash_block(a) = hash_block(b) => a = b
        /\ \A a \in Candidates(g) : hash_block(a) # FakeHash

Perms(n) == {f \in [1..n -> 1..n] : \A i, j \in 1..n : f[i] = f[j] => i = j}

Permuted(s, f) == [i \in 1..Len(s) |-> s[f[i]]]

\* the same blocks with the same parent/child relation, whatever the order of
\* the children
RECURSIVE Isomorphic(_, _)
Isomorphic(a, b) ==
    /\ a.value = b.value
    /\ Len(a.children) = Len(b.children)
    /\ \E f \in Perms(Len(a.children)) :
          \A i \in DOMAIN a.children : Isomorphic(a.children[i], b.children[f[i]])

\* the blocks held by the nodes below the root
Attached(root) == {NodeAt(root, p).value : p \in Paths(root) \ {<<>>}}

\* the references to the nodes below the root that hold block b
NodesOf(root, b) == {p \in Paths(root) \ {<<>>} : NodeAt(root, p).value = b}

Front(p) == SubSeq(p, 1, Len(p) - 1)

DistinctNonces(bs) == \A i, j \in DOMAIN bs : bs[i].nonce = bs[j].nonce => i = j

\* every block names the genesis block or a block of the list as its parent
ParentsPresent(g, bs) ==
    \A i \in DOMAIN bs :
        \/ bs[i].parent_hash = hash_block(g)
        \/ \E j \in DOMAIN bs : bs[i].parent_hash = hash_block(bs[j])

\* the ancestor chain of b, followed for at most k blocks of the list, ends
\* at the genesis block
RECURSIVE ReachesGenesis(_, _, _, _)
ReachesGenesis(g, bs, b, k) ==
    \/ b.parent_hash = hash_block(g)
    \/ /\ k > 0
       /\ \E j \in DOMAIN bs :
             /\ b.parent_hash = hash_block(bs[j])
             /\ ReachesGenesis(g, bs, bs[j], k - 1)

AllReachGenesis(g, bs) == \A i \in DOMAIN bs : ReachesGenesis(g, bs, bs[i], Len(bs))

\* some block of the list stands before its parent
ChildBeforeParent(bs) ==
    \E i, j \in DOMAIN bs : i < j /\ bs[i].parent_hash = hash_block(bs[j])

\* C1 as stated: any permutation of a block set whose parents are all
\* present gives an isomorphic tree.
C1_OrderIndependent ==
    (b_pc = "done" /\ DistinctBlocks(blocks) /\ ParentsPresent(genesis, blocks)) =>
        \A f \in Perms(Len(blocks)) :
            Isomorphic(tree, new_from_genesis_and_vec(genesis, Permuted(blocks, f)).blocks)

\* C1 amended: any permutation of a block set with pairwise distinct nonces
\* whose parents are all present gives an isomorphic tree.
C1_OrderIndependentDistinctNonces ==
    (b_pc = "done" /\ DistinctNonces(blocks) /\ ParentsPresent(genesis, blocks)) =>
        \A f \in Perms(Len(blocks)) :
            Isomorphic(tree, new_from_genesis_and_vec(genesis, Permuted(blocks, f)).blocks)

\* a grandchild listed before its parent, with a sibling: all attached
C1_Witness ==
    /\ b_pc = "done"
    /\ DistinctNonces(blocks) /\ ParentsPresent(genesis, blocks)
    /\ Len(blocks) = 2
    /\ ChildBeforeParent(blocks)
    /\ Attached(tree) = Range(blocks)
    /\ ~Isomorphic(tree, TreeNode_new(genesis))

\* C2: with pairwise distinct nonces and every ancestor chain reaching the
\* genesis block, every candidate is attached under the node whose hash is its
\* parent_hash, whatever the order, and nothing is returned as unplaceable.
C2_ChildrenBeforeParentsPlaced ==
    (b_pc = "done" /\ DistinctNonces(blocks) /\ AllReachGenesis(genesis, blocks)) =>
        /\ remaining_blocks = <<>>
        /\ \A i \in DOMAIN blocks :
              /\ NodesOf(tree, blocks[i]) # {}
              /\ \A p \in NodesOf(tree, blocks[i]) :
                    hash_block(NodeAt(tree, Front(p)).value) = blocks[i].parent_hash

\* a block listed before its parent and placed in a second sweep
C2_Witness ==
    /\ b_pc = "done"
    /\ DistinctNonces(blocks) /\ AllReachGenesis(genesis, blocks)
    /\ ChildBeforeParent(blocks)
    /\ sweeps = 3
    /\ Attached(tree) = Range(blocks)

\* the number of entries of s that carry nonce n
CountNonce(s, n) == Cardinality({i \in DOMAIN s : s[i].nonce = n})

\* C3: of two candidates with the same nonce at most one is attached, and
\* the other one is returned as unplaceable.
C3_DuplicateNonces ==
    b_pc = "done" =>
        \A i, j \in DOMAIN blocks :
            (i # j /\ blocks[i].nonce = blocks[j].nonce) =>
                /\ Cardinality({p \in Paths(tree) \ {<<>>} :
                                   NodeAt(tree, p).value.nonce = blocks[i].nonce}) <= 1
                /\ blocks[i] \in Range(remaining_blocks) \/ blocks[j] \in Range(remaining_blocks)
                /\ blocks[i] \in Attached(tree) /\ blocks[i] # blocks[j]
                      => blocks[j] \in Range(remaining_blocks)
                /\ CountNonce(remaining_blocks, blocks[i].nonce)
                      >= CountNonce(blocks, blocks[i].nonce) - 1

\* two attachable candidates with one nonce and different parents: the first
\* is in the tree, the second is returned
C3_Witness ==
    /\ b_pc = "done"
    /\ Len(blocks) = 3
    /\ blocks[2].nonce = blocks[3].nonce
    /\ blocks[2].parent_hash = hash_block(genesis)
    /\ blocks[3].parent_hash = hash_block(blocks[1])
    /\ blocks[1] \in Attached(tree)
    /\ blocks[2] \in Attached(tree)
    /\ remaining_blocks = <<blocks[3]>>

\* the candidate names neither the genesis block nor a candidate as parent
IsOrphan(g, bs, b) ==
    /\ b.parent_hash # hash_block(g)
    /\ \A j \in DOMAIN bs : b.parent_hash # hash_block(bs[j])

\* C4: a candidate whose parent_hash is the hash of neither the genesis block
\* nor any candidate is attached nowhere in the tree and is returned as
\* unplaceable.
C4_OrphansUnplaceable ==
    b_pc = "done" =>
        \A i \in DOMAIN blocks :
            IsOrphan(genesis, blocks, blocks[i]) =>
                /\ blocks[i] \notin Attached(tree)
                /\ blocks[i] \in Range(remaining_blocks)
                /\ CountNonce(remaining_blocks, blocks[i].nonce) >= 1

\* an orphan listed before a block and its child, which are attached: it is
\* kept through the sweeps and returned, without having been found a duplicate
C4_Witness ==
    /\ b_pc = "done"
    /\ Len(blocks) = 3
    /\ blocks[1].parent_hash = FakeHash
    /\ blocks[3].parent_hash = hash_block(blocks[2])
    /\ blocks[2] \in Attached(tree)
    /\ blocks[1].nonce \notin blockids
    /\ invalid_blocks = <<blocks[3]>>
    /\ remaining_blocks = <<blocks[1], blocks[3]>>

\* the list without its last block
Earlier == SubSeq(blocks, 1, Len(blocks) - 1)

Last == blocks[Len(blocks)]

\* C5 as stated: a last block B with the nonce of a block that the build over
\* the earlier blocks attaches leaves the tree of that build unchanged and is
\* returned as unplaceable.
C5_CollidingBlockNoEffect ==
    (/\ b_pc = "done"
     /\ blocks # <<>>
     /\ \E a \in Attached(new_from_genesis_and_vec(genesis, Earlier).blocks) :
           a.nonce = Last.nonce) =>
        /\ tree = new_from_genesis_and_vec(genesis, Earlier).blocks
        /\ Last \in Range(remaining_blocks)

\* C5 amended: a last block B with the nonce of a block that the build over
\* the earlier blocks attaches in its first sweep leaves the tree of that
\* build unchanged and is returned as unplaceable.
C5_CollidingBlockNoEffectFirstSweep ==
    (/\ b_pc = "done"
     /\ blocks # <<>>
     /\ \E a \in Attached(first_sweep(genesis, Earlier)) : a.nonce = Last.nonce) =>
        /\ tree = new_from_genesis_and_vec(genesis, Earlier).blocks
        /\ Last \in Range(remaining_blocks)
        /\ Last \in Range(invalid_blocks)

\* B names an attached block as parent and has the nonce of another attached
\* block, as B4 of the scenario
C5_Witness ==
    /\ b_pc = "done"
    /\ Len(blocks) = 3
    /\ blocks[3].parent_hash = hash_block(blocks[1])
    /\ blocks[3].nonce = blocks[1].nonce
    /\ blocks[3] # blocks[1]
    /\ Attached(tree) = {blocks[1], blocks[2]}
    /\ remaining_blocks = <<blocks[3]>>

(***************************************************************************)
(* Properties of the mining loop.                                          *)
(***************************************************************************)
\* the loop is past SelectTip in the current cycle
TipSelected == m_pc \in {"new_block", "solve", "send", "print"}

\* C6: the block chosen to be extended is a leaf at the maximum leaf depth of
\* the tree built in the cycle, and no leaf at that depth has a smaller nonce.
C6_SelectTipDeepestSmallestNonce ==
    TipSelected =>
        /\ \E p \in DeepestLeaves(chain) : NodeAt(chain, p).value = leaf
        /\ \A q \in DeepestLeaves(chain) : leaf.nonce <= NodeAt(chain, q).value.nonce
        /\ \A q \in Leaves(chain) \ DeepestLeaves(chain) : NodeAt(chain, q).value # leaf
        /\ m_pc \in {"solve", "send", "print"} => new_block.parent_hash = hash_block(leaf)

\* the tip is the only leaf at depth 3 although a leaf at depth 2 has a
\* smaller nonce
C6_Witness ==
    /\ TipSelected
    /\ MaxLeafDepth(chain) = 3
    /\ \E q \in Leaves(chain) : Depth(q) = 2 /\ NodeAt(chain, q).value.nonce < leaf.nonce

\* two leaves at the maximum depth: the tip is the later one of the
\* traversal, which has the smaller nonce
C6_WitnessTie ==
    /\ TipSelected
    /\ Cardinality(DeepestLeaves(chain)) = 2
    /\ leaf = NodeAt(chain, deepest_leafs(chain)[2]).value
    /\ leaf.nonce < NodeAt(chain, deepest_leafs(chain)[1]).value.nonce

\* no block of the sequence satisfies is_genesis
NoGenesisIn(bs) == \A k \in DOMAIN bs : ~is_genesis(bs[k], m_difficulty)

\* empty parent_hash and the reserved miner name
GenesisShaped(b) == Len(b.parent_hash) = 0 /\ b.miner = "Genesis"

\* the order in which one cycle passes through the loop body
LoopEdges ==
    {<<"recv", "elect">>, <<"elect", "solve_genesis">>, <<"elect", "build">>,
     <<"solve_genesis", "send_genesis">>, <<"send_genesis", "build">>,
     <<"send_genesis", "panicked">>, <<"build", "select">>, <<"select", "new_block">>,
     <<"select", "panicked">>, <<"new_block", "solve">>, <<"solve", "send">>,
     <<"send", "print">>, <<"send", "panicked">>, <<"print", "recv">>}

C14_Step ==
    /\ m_pc' # m_pc => <<m_pc, m_pc'>> \in LoopEdges
    /\ Len(tx_net') > Len(tx_net) => (m_pc \in {"send_genesis", "send"} /\ m_pc' # m_pc)
    /\ (m_pc = "elect" /\ m_pc' # m_pc) =>
          IF NoGenesisIn(received)
          THEN m_pc' = "solve_genesis" /\ GenesisShaped(m_block')
          ELSE /\ m_pc' = "build"
               /\ m_genesis' \in Range(received)
               /\ is_genesis(m_genesis', m_difficulty)
    /\ m_pc = "solve_genesis" => (GenesisShaped(m_block') /\ received' = received)
    /\ (m_pc = "send_genesis" /\ m_pc' = "build") =>
          /\ NoGenesisIn(received)
          /\ GenesisShaped(m_block)
          /\ tx_net' = Append(tx_net, m_block)
          /\ m_genesis' = m_block
    /\ (m_pc = "build" /\ m_pc' = "select") =>
          (chain'.value = m_genesis /\ m_genesis' = m_genesis)
    /\ (m_pc = "send" /\ m_pc' = "print") =>
          (tx_net' = Append(tx_net, new_block) /\ chain.value = m_genesis)

\* C14: in a cycle whose snapshot holds no block satisfying is_genesis the
\* loop synthesizes a block with empty parent_hash and miner "Genesis", sends
\* it before it builds the tree and before it sends the mined block, and
\* roots the tree at it; in a cycle whose snapshot holds such a block the
\* loop goes from the election straight to the build, with the block found
\* as root and nothing sent before the mined block.
C14_GenesisBootstrapOrdering == [][C14_Step]_vars

\* a snapshot of blocks none of which is a genesis block: the synthesized
\* block has been sent and the build is about to start from it
C14_Witness ==
    /\ m_pc = "build"
    /\ received # <<>>
    /\ NoGenesisIn(received)
    /\ GenesisShaped(m_genesis)
    /\ tx_net = <<m_genesis>>

\* a snapshot with a genesis block behind another block: it is elected and
\* nothing has been sent
C14_WitnessFound ==
    /\ m_pc = "build"
    /\ Len(received) >= 2
    /\ ~is_genesis(received[1], m_difficulty)
    /\ m_genesis \in Range(received)
    /\ tx_net = <<>>

C15_Step ==
    \* the snapshot received is the one the tree is built from
    /\ (m_pc = "recv" /\ m_pc' = "elect") => received' = Head(rx_net)
    /\ m_pc \in {"elect", "solve_genesis", "send_genesis"} => received' = received
    /\ (m_pc = "build" /\ m_pc' = "select") =>
          chain' = new_from_genesis_and_vec(m_genesis, received).blocks
    \* the tree and the tip stay as they are until the block is sent
    /\ m_pc \in {"select", "new_block", "solve", "send"} => chain' = chain
    /\ m_pc \in {"new_block", "solve", "send"} => leaf' = leaf
    \* a block that is put into the outbound channel past the election is the
    \* new block, linked to the tip and signed with the configured name
    /\ (Len(tx_net') > Len(tx_net) /\ m_pc # "send_genesis") =>
          /\ m_pc = "send"
          /\ tx_net' = Append(tx_net, new_block)
          /\ ~GenesisShaped(new_block)
          /\ new_block.parent_hash = hash_block(leaf)
          /\ new_block.miner = miner_name
          /\ leaf = NodeAt(chain, select_tip(chain)[1]).value

\* C15: every non-genesis block the loop sends has as parent_hash the hash
\* of the tip selected in the same cycle, from the tree built from the
\* snapshot received in that cycle, and as miner the configured identity.
C15_MinedBlockLinkage == [][C15_Step]_vars

\* a block sent on top of a tip below the root, with a nonce that solving
\* has set
C15_Witness ==
    /\ m_pc = "print"
    /\ tx_net # <<>>
    /\ tx_net[Len(tx_net)] = new_block
    /\ new_block.nonce # 0
    /\ new_block.parent_hash = hash_block(leaf)
    /\ leaf # chain.value
    /\ Len(leaf.parent_hash) > 0

\* the loop is at one of its two sends
AtSend == m_pc \in {"send_genesis", "send"}

C16_Step ==
    \* a send with the receiver gone puts nothing into the channel and ends
    \* the loop
    /\ (AtSend /\ ~net_alive) =>
          /\ m_pc' = "panicked"
          /\ tx_net' = tx_net /\ rx_net' = rx_net /\ received' = received
    \* the loop ends in no other way
    /\ (m_pc' = "panicked" /\ m_pc # "panicked") => (AtSend /\ ~net_alive)
    \* once ended it takes no snapshot and sends no block
    /\ m_pc = "panicked" =>
          (m_pc' = "panicked" /\ tx_net' = tx_net /\ rx_net' = rx_net /\ received' = received)

\* C16: a send of the mined block or of the synthesized genesis block that
\* fails because the receiver is gone halts the loop there: it receives no
\* further snapshot and sends no further block.
C16_OutboundFailureFatal == [][C16_Step]_vars

\* the loop has ended at the send of a mined block, with a snapshot left
\* unread in the inbound channel
C16_Witness ==
    /\ m_pc = "panicked"
    /\ ~net_alive
    /\ rx_net # <<>>
    /\ ~GenesisShaped(new_block) /\ new_block.miner = miner_name
    /\ tx_net = <<>>

\* the loop has ended at the send of the synthesized genesis block
C16_WitnessGenesis ==
    /\ m_pc = "panicked"
    /\ ~net_alive
    /\ GenesisShaped(m_block)
    /\ new_block = DefaultBlock

\* C12: when the inbound channel is closed for good (its sender is gone and
\* nothing is left in it), the loop stops after at most one failed read: it
\* never fails the read a second time.
C12_InboundClosureFatal == recv_errors <= 1

\* C13: a block whose solve_block ran out of attempts is not handed to the
\* outbound channel: every block in the outbound channel has a hash that
\* meets the configured difficulty.
C13_ExhaustionDiscardsBlock ==
    \A k \in DOMAIN tx_net : pow_check(hash_block(tx_net[k]), m_difficulty)

\* C17: whenever the loop receives a snapshot, it is the most recent one the
\* network worker has produced, never an earlier one while a fresher exists.
C17_FreshestSnapshot ==
    [][(snap_pc = "recv" /\ snap_pc' = "busy") =>
          snap_received'[1].serial = snap_produced]_vars

(***************************************************************************)
(* Properties of mine across the orders and the sequence of snapshots.     *)
(***************************************************************************)
\* the digest tells the blocks the recording worker knows of apart, and the
\* genesis block of a cycle from them
CycleHashDistinct ==
    m_pc = "build" =>
        \A a, b \in CycleBlocks \cup {m_genesis} : hash_block(a) = hash_block(b) => a = b

\* the genesis block a cycle elects from the snapshot s, g being the block it
\* creates when s holds none
ElectedFrom(s, g) ==
    LET found == find_genesis(s, m_difficulty, 1)
    IN  IF found = None THEN g ELSE found[1]

\* the block select_tip yields in the tree built from s under the genesis g
TipOf(g, s) ==
    LET root == new_from_genesis_and_vec(g, s).blocks
    IN  NodeAt(root, select_tip(root)[1]).value

\* the snapshot the running cycle received: the last one handed over that has
\* left the channel
CurrentSnapshot == delivered[Len(delivered) - Len(rx_net)]

\* the tree of the running cycle has been built
TreeBuilt == m_pc \in {"select", "new_block", "solve", "send", "print"}

\* the cycles before the running one
EarlierCycles == 1..(Len(delivered) - Len(rx_net) - 1)

\* C18: the order of a snapshot has no meaning: a cycle fed any permutation of
\* the snapshot it received elects the same genesis block and selects the same
\* tip, also when the snapshot holds several genesis blocks or several blocks
\* of one nonce.
C18_SnapshotOrderIrrelevant ==
    TipSelected =>
        \A f \in Perms(Len(CurrentSnapshot)) :
            LET s == Permuted(CurrentSnapshot, f)
            IN  /\ ElectedFrom(s, m_genesis) = m_genesis
                /\ TipOf(ElectedFrom(s, m_genesis), s) = leaf

\* C19: the genesis block a cycle has elected stays the root: the tree built
\* in every later cycle is rooted at the genesis block an earlier cycle found
\* in its snapshot, also when the later snapshot holds no genesis block or
\* lists another one first.
C19_GenesisKeptAcrossCycles ==
    TreeBuilt =>
        \A k \in EarlierCycles :
            find_genesis(delivered[k], m_difficulty, 1) # None =>
                chain.value = find_genesis(delivered[k], m_difficulty, 1)[1]

(***************************************************************************)
(* Nonces of the whole tree, the root included.                            *)
(***************************************************************************)
\* C20: no nonce is in the returned tree twice: its nodes, the genesis root
\* included, carry pairwise distinct nonces, and no candidate with the nonce of
\* the root is attached.
C20_NoNonceTwice ==
    b_pc = "done" =>
        /\ \A p, q \in Paths(tree) :
              NodeAt(tree, p).value.nonce = NodeAt(tree, q).value.nonce => p = q
        /\ \A i \in DOMAIN blocks :
              blocks[i].nonce = genesis.nonce => blocks[i] \notin Attached(tree)

(***************************************************************************)
(* Conservation, linkage and termination of new_from_genesis_and_vec.      *)
(***************************************************************************)
\* the number of entries of s equal to b
Count(s, b) == Cardinality({i \in DOMAIN s : s[i] = b})

\* the lists that hold candidates at the current position: inside a sweep the
\* blocks not yet visited, the blocks put off and the duplicates; between
\* sweeps the pending blocks and the duplicates; at return the one list given
\* back
Held ==
    CASE b_pc = "for" -> remaining_blocks \o still_remaining \o invalid_blocks
      [] b_pc = "while" -> remaining_blocks \o invalid_blocks
      [] b_pc = "done" -> remaining_blocks

\* C21: the builder loses and duplicates nothing: every occurrence of a
\* candidate is either one non-root node of the tree or one entry of the lists,
\* so (nodes - 1) + (entries) is the number of candidates; at every position of
\* every sweep, and at return for the tree and the returned list.
C21_NothingLostNothingDuplicated ==
    b_pc \in {"for", "while", "done"} =>
        /\ \A b \in Range(blocks) :
              Count(blocks, b) = Cardinality(NodesOf(tree, b)) + Count(Held, b)
        /\ Attached(tree) \cup Range(Held) \subseteq Range(blocks)
        /\ (Size(tree) - 1) + Len(Held) = Len(blocks)

\* the function has returned a tree with an attached block and a list that
\* holds an orphan and a duplicate
C21_Witness ==
    /\ b_pc = "done"
    /\ Size(tree) > 1
    /\ invalid_blocks # <<>>
    /\ Len(remaining_blocks) > Len(invalid_blocks)

\* C22: after every insertion each non-root node names its parent node: its
\* parent_hash is the hash of the block the parent node holds; so the copy of
\* the genesis block among the candidates is never attached and the root is
\* the only node with an empty parent_hash.
C22_StructuralLinkage ==
    b_pc # "idle" =>
        /\ \A p \in Paths(tree) \ {<<>>} :
              NodeAt(tree, p).value.parent_hash = hash_block(NodeAt(tree, Front(p)).value)
        /\ genesis \notin Attached(tree)
        /\ {p \in Paths(tree) : Len(NodeAt(tree, p).value.parent_hash) = 0} = {<<>>}

\* the candidates held a copy of the genesis block, and the returned tree has
\* a node two levels below the root
C22_Witness ==
    /\ b_pc = "done"
    /\ genesis \in Range(blocks)
    /\ \E p \in Paths(tree) : Len(p) = 2

\* the state the sweep about to begin leaves behind
AfterSweep == sweep_end(for_loop(sweep_begin(CurrentState)))

\* a sweep that makes progress leaves fewer pending blocks than it found
SweepShrinks ==
    (b_pc = "while" /\ inserted_some /\ AfterSweep.inserted_some) =>
        Len(AfterSweep.remaining_blocks) < Len(remaining_blocks)

\* the steps a loop entered with p pending blocks and progress reported can
\* take at most: sweeps over p, p - 1, .. 0 blocks, each with its begin and
\* its end, and the return
StepsFrom(p) == 1 + ((p + 1) * (p + 4)) \div 2

\* the steps the function can take at most from the current position
StepsLeft ==
    CASE b_pc = "done" -> 0
      [] b_pc = "while" -> IF inserted_some THEN StepsFrom(Len(remaining_blocks)) ELSE 1
      [] b_pc = "for" ->
            LET r == Len(remaining_blocks)
                q == Len(still_remaining)
            IN  r + 1 + (IF inserted_some THEN StepsFrom(q + r)
                         ELSE IF r = 0 THEN 1
                         ELSE StepsFrom(q + r - 1))

\* C23: the builder terminates: every step of the function lowers the number
\* of steps it can still take, for n candidates the sweep loop begins at most
\* n + 1 sweeps, a sweep with progress shrinks the pending list and a sweep
\* without progress ends the loop.
C23_Step ==
    /\ StepsLeft' < StepsLeft
    /\ StepsLeft' >= 0
    /\ sweeps' <= Len(blocks) + 1
    /\ SweepShrinks
    /\ (b_pc = "while" /\ ~inserted_some) => b_pc' = "done"
    /\ b_pc' = "done" => (b_pc = "while" /\ ~inserted_some)

C23_BuilderTerminates == [][C23_Step]_vars

\* the function has returned after n + 1 sweeps: a child listed before its
\* parent, attached in the second sweep, and a third sweep without progress
C23_Witness ==
    /\ b_pc = "done"
    /\ Len(blocks) = 2
    /\ sweeps = Len(blocks) + 1
    /\ remaining_blocks = <<>>

(***************************************************************************)
(* A tip exists in every cycle of mine.                                    *)
(***************************************************************************)
\* the tree the cycle is about to build from its genesis block and snapshot
TreeToBuild == new_from_genesis_and_vec(m_genesis, received).blocks

\* C24: a tip always exists: deepest_leafs is never empty, a root on its own
\* being its one deepest leaf, so in every cycle, also one whose snapshot is
\* empty or holds unplaceable blocks only, the tree built has a tip, unwrap
\* does not panic and the loop goes on to make the new block.
C24_Step ==
    /\ m_pc = "build" =>
          /\ deepest_leafs(TreeToBuild) # <<>>
          /\ TreeToBuild.children = <<>> => deepest_leafs(TreeToBuild) = << <<>> >>
          /\ m_pc' # m_pc => (m_pc' = "select" /\ chain' = TreeToBuild)
    /\ m_pc = "select" =>
          /\ select_tip(chain) # None
          /\ m_pc' # m_pc =>
                /\ m_pc' = "new_block"
                /\ leaf' = NodeAt(chain, select_tip(chain)[1]).value
    /\ (m_pc = "new_block" /\ m_pc' # m_pc) => m_pc' = "solve"

C24_TipAlwaysExists == [][C24_Step]_vars

\* a cycle whose tree is the root alone has selected the root as tip
C24_Witness ==
    /\ m_pc = "new_block"
    /\ chain.children = <<>>
    /\ leaf = m_genesis
    /\ leaf = chain.value

\* a cycle is about to build from a snapshot of unplaceable blocks only
C24_WitnessUnplaceable ==
    /\ m_pc = "build"
    /\ received # <<>>
    /\ TreeToBuild.children = <<>>

====
